---- MODULE Spec2Model ----
(***************************************************************************)
(* A model of nerf/renderer.py (class NeRFRenderer): the occupancy grid    *)
(* and its maintenance calls (reset_extra_state, mark_untrained_grid,      *)
(* update_extra_state) and the public render entry point (render, run).    *)
(*                                                                         *)
(* Numbers.  Densities (the cells of density_grid, the sampled sigmas,     *)
(* mean_density, density_thresh) are exact fractions [num, den] in lowest  *)
(* terms, den > 0; products, sums and comparisons of them are exact.       *)
(***************************************************************************)
EXTENDS Integers, Sequences, FiniteSets, TLC

\* ------------------------------------------------------------------ sizes

\* self.grid_size (128 in the source); the model keeps the smallest power of
\* two for which the bitfield has a whole byte per cascade.
grid_size == 2
\* the constructor's bound (its default), from which cascade is derived
bound == 1
\* density_scale, a constructor parameter (> 0)
density_scale == 2
\* the warm-up length of update_extra_state: iter_density < 16
WarmUp == 16
\* the number of slots of step_counter
CounterSlots == 16
\* the refreshes a run of the model may complete between two resets
MaxIter == 17
\* the refreshes a run of resets and refreshes alone may complete between two resets
MaxSweeps == 19
\* the cameras of the longest pose set handed to mark_untrained_grid
MaxPoses == 2
\* the rays of the longest row handed to render
MaxRays == 3
\* the largest max_ray_batch handed to render
MaxChunk == 2

\* math.ceil(math.log2(n)) for n >= 1
RECURSIVE CeilLog2(_)
CeilLog2(n) == IF n <= 1 THEN 0 ELSE 1 + CeilLog2((n + 1) \div 2)

cascade == 1 + CeilLog2(bound)

\* the bits of a grid coordinate: grid_size = 2^CoordBits
CoordBits == CeilLog2(grid_size)

Cells == grid_size * grid_size * grid_size
CellIdx == 0 .. (Cells - 1)
CasIdx == 0 .. (cascade - 1)
Coords == (0 .. (grid_size - 1)) \X (0 .. (grid_size - 1)) \X (0 .. (grid_size - 1))
NumBytes == (cascade * Cells) \div 8

\* ------------------------------------------------------------------ helpers

Min(a, b) == IF a < b THEN a ELSE b
Max(a, b) == IF a > b THEN a ELSE b

RECURSIVE Pow2(_)
Pow2(n) == IF n <= 0 THEN 1 ELSE 2 * Pow2(n - 1)

Bit(n, b) == (n \div Pow2(b)) % 2

RECURSIVE SumTo(_, _)
\* f[0] + ... + f[n - 1]
SumTo(f, n) == IF n <= 0 THEN 0 ELSE f[n - 1] + SumTo(f, n - 1)

Rat(n, d) == [num |-> n, den |-> d]
RatLess(a, b) == a.num * b.den < b.num * a.den
RatMin(a, b) == IF RatLess(a, b) THEN a ELSE b

RECURSIVE Gcd(_, _)
Gcd(a, b) == IF b = 0 THEN a ELSE Gcd(b, a % b)

\* the fraction n / d (d > 0) in lowest terms
Norm(n, d) ==
    LET g == Gcd(IF n < 0 THEN -n ELSE n, d)
    IN  Rat(n \div g, d \div g)

\* a * b and a + b, exact
Times(a, b) == Norm(a.num * b.num, a.den * b.den)
Plus(a, b) ==
    LET l == (a.den \div Gcd(a.den, b.den)) * b.den
    IN  Norm(a.num * (l \div a.den) + b.num * (l \div b.den), l)

RECURSIVE LessPos(_, _, _, _)
\* an / ad < bn / bd for fractions >= 0, by their continued fractions (no
\* product of a numerator and a denominator is formed)
LessPos(an, ad, bn, bd) ==
    IF an \div ad # bn \div bd THEN an \div ad < bn \div bd
    ELSE IF bn % bd = 0 THEN FALSE
    ELSE IF an % ad = 0 THEN TRUE
    ELSE LessPos(bd, bn % bd, ad, an % ad)

\* a < b, exact
Less(a, b) ==
    IF a.num < 0 /\ b.num >= 0 THEN TRUE
    ELSE IF a.num >= 0 /\ b.num < 0 THEN FALSE
    ELSE IF a.num < 0 THEN LessPos(-b.num, b.den, -a.num, a.den)
    ELSE LessPos(a.num, a.den, b.num, b.den)

\* torch.maximum of two densities
Maximum(a, b) == IF Less(a, b) THEN b ELSE a

\* density_thresh, a constructor parameter: 0.01
density_thresh == Rat(1, 100)

\* a density v compared with a threshold: v > r
GreaterThan(v, r) == Less(r, v)

\* ------------------------------------------------------------------ raymarching (index mapping, bit packing)

RECURSIVE Interleave(_, _)
\* raymarching.morton3D: the bits of x, y, z interleaved, x lowest
Interleave(c, b) ==
    IF b >= CoordBits THEN 0
    ELSE Pow2(3 * b) * (Bit(c[1], b) + 2 * Bit(c[2], b) + 4 * Bit(c[3], b))
         + Interleave(c, b + 1)

\* (f @@ <<>> is f, evaluated once over its whole domain)
MortonTable == [c \in Coords |-> Interleave(c, 0)] @@ <<>>
morton3D(c) == MortonTable[c]

RECURSIVE Compact(_, _, _)
\* every third bit of i, starting at bit k
Compact(i, k, b) ==
    IF b >= CoordBits THEN 0
    ELSE Pow2(b) * Bit(i, 3 * b + k) + Compact(i, k, b + 1)

InvertTable ==
    [i \in CellIdx |-> <<Compact(i, 0, 0), Compact(i, 1, 0), Compact(i, 2, 0)>>] @@ <<>>
morton3D_invert(i) == InvertTable[i]

\* the grid as the flat array the kernel sees: [CAS, H*H*H] row-major
FlatGrid(grid, f) == grid[f \div Cells][f % Cells]

RECURSIVE PackByte(_, _, _, _)
\* the bits i .. 7 of byte n
PackByte(grid, thresh, n, i) ==
    IF i >= 8 THEN 0
    ELSE (IF GreaterThan(FlatGrid(grid, 8 * n + i), thresh) THEN Pow2(i) ELSE 0)
         + PackByte(grid, thresh, n, i + 1)

\* raymarching.packbits(grid, thresh, bitfield): one bit per cell, density > thresh
packbits(grid, thresh, bitfield) ==
    [n \in DOMAIN bitfield |-> PackByte(grid, thresh, n, 0)]

\* ------------------------------------------------------------------ state

VARIABLES
    cuda_ray,          \* self.cuda_ray: the occupancy grid ("extra state") is enabled
    bg_radius,         \* self.bg_radius
    field_ok,          \* density/color are overridden by a concrete field
    in_place,          \* the build's packbits kernel writes the buffer it is handed
    aabb_train,        \* buffer aabb_train
    aabb_infer,        \* buffer aabb_infer
    density_grid,      \* buffer density_grid [CAS, H*H*H]; <<>> when not cuda_ray
    density_bitfield,  \* buffer density_bitfield [CAS*H*H*H // 8]
    mean_density,      \* self.mean_density, a fraction
    iter_density,      \* self.iter_density
    step_counter,      \* buffer step_counter [16, 2]
    mean_count,        \* self.mean_count
    local_step,        \* self.local_step
    call,              \* the call that returned last: its name, arguments and outcome
    results,           \* what the last render call returned (its fields), or NoResults
    sweep,             \* the kind of sweep the last completed refresh made
    calls,             \* refreshes completed since construction or the last reset (concurrent callers: calls entered)
    pc,                \* concurrent callers: where each caller's call stands
    locals             \* the local variables (tmp_grid, decay, ...) of the calls in flight

vars == <<cuda_ray, bg_radius, field_ok, in_place, aabb_train, aabb_infer, density_grid,
          density_bitfield, mean_density, iter_density, step_counter, mean_count,
          local_step, call, results, sweep, calls, pc, locals>>

config == <<cuda_ray, bg_radius, field_ok, in_place>>

\* what the calls made one at a time never touch
callers == <<pc, locals>>

\* the renderers constructed: <<cuda_ray, bg_radius, field_ok>>.  With cuda_ray
\* bg_radius is read by run_cuda only, which render never reaches.
Configs ==
    {<<TRUE, -1, TRUE>>, <<TRUE, -1, FALSE>>,
     <<FALSE, -1, TRUE>>, <<FALSE, 1, TRUE>>, <<FALSE, -1, FALSE>>}

\* the attributes the object keeps between calls
Self ==
    [density_grid |-> density_grid, density_bitfield |-> density_bitfield,
     mean_density |-> mean_density, iter_density |-> iter_density,
     step_counter |-> step_counter, mean_count |-> mean_count,
     local_step |-> local_step]

Excluded == -1
NoCallers == [t \in {} |-> 0]
NoResults == [k \in {} |-> 0]

\* ------------------------------------------------------------------ __init__

ZeroGrid == [cas \in CasIdx |-> [i \in CellIdx |-> Rat(0, 1)]]
ZeroBitfield == [n \in 0 .. (NumBytes - 1) |-> 0]
ZeroCounter == [k \in 0 .. (CounterSlots - 1) |-> <<0, 0>>]

\* the extra state __init__ creates when cuda_ray
InitExtraState ==
    [density_grid |-> ZeroGrid, density_bitfield |-> ZeroBitfield,
     mean_density |-> Rat(0, 1), iter_density |-> 0,
     step_counter |-> ZeroCounter, mean_count |-> 0, local_step |-> 0]

\* without cuda_ray the attributes do not exist
NoExtraState ==
    [density_grid |-> <<>>, density_bitfield |-> <<>>,
     mean_density |-> Rat(0, 1), iter_density |-> 0,
     step_counter |-> <<>>, mean_count |-> 0, local_step |-> 0]

InitAabb == <<-bound, -bound, -bound, bound, bound, bound>>

\* ------------------------------------------------------------------ reset_extra_state

reset_extra_state(self) ==
    [self EXCEPT !.density_grid = ZeroGrid,
                 !.mean_density = Rat(0, 1),
                 !.iter_density = 0,
                 !.step_counter = ZeroCounter,
                 !.mean_count = 0,
                 !.local_step = 0]

\* ------------------------------------------------------------------ mark_untrained_grid

\* a pose is [R |-> rows of the rotation, t |-> translation] (camera to world)
CamUp   == [R |-> <<<<1, 0, 0>>, <<0, 1, 0>>, <<0, 0, 1>>>>, t |-> <<0, 0, 0>>]
CamDown == [R |-> <<<<1, 0, 0>>, <<0, -1, 0>>, <<0, 0, -1>>>>, t |-> <<0, 0, 0>>]
CamSide == [R |-> <<<<1, 0, 0>>, <<0, 1, 0>>, <<0, 0, 1>>>>, t |-> <<1, 0, -1>>]
Cameras == {CamUp, CamDown, CamSide}

\* fx, fy, cx, cy
Intrinsics == {<<1, 1, 1, 1>>}

PoseSets == UNION {[1 .. n -> Cameras] : n \in 0 .. MaxPoses}
BatchSizes == {1, 2, 3}

\* bound = min(2**cas, self.bound)
CasBound(cas) == Min(Pow2(cas), bound)

\* cas_world_xyzs of cell c, times grid_size:
\* (2c/(H-1) - 1) * (bound - bound/H) * H = (2c - (H-1)) * bound
CasWorld(cas, c) == [k \in 1 .. 3 |-> (2 * c[k] - (grid_size - 1)) * CasBound(cas)]

\* cam_xyzs = (cas_world_xyzs - t) @ R, times grid_size
CamXyz(pose, cas, c) ==
    LET w == CasWorld(cas, c)
        d == [k \in 1 .. 3 |-> w[k] - grid_size * pose.t[k]]
    IN  [j \in 1 .. 3 |-> d[1] * pose.R[1][j] + d[2] * pose.R[2][j] + d[3] * pose.R[3][j]]

Abs(x) == IF x < 0 THEN -x ELSE x

\* mask_z & mask_x & mask_y; half_grid_size * 2 * grid_size = 2 * bound
FrustumTest(pose, intr, cas, c) ==
    LET p == CamXyz(pose, cas, c)
        fx == intr[1]  fy == intr[2]  cx == intr[3]  cy == intr[4]
    IN  /\ p[3] > 0
        /\ Abs(p[1]) * fx < cx * p[3] + 2 * CasBound(cas) * fx
        /\ Abs(p[2]) * fy < cy * p[3] + 2 * CasBound(cas) * fy

\* the test over every camera, intrinsic and cell of the model, computed once
FrustumSet ==
    {b : b \in {a \in Cameras \X Intrinsics \X CasIdx \X Coords :
                    FrustumTest(a[1], a[2], a[3], a[4])}}

InFrustum(pose, intr, cas, c) == <<pose, intr, cas, c>> \in FrustumSet

RECURSIVE BatchMask(_, _, _, _, _, _)
\* (mask_z & mask_x & mask_y).sum(0) over poses[head:tail]
BatchMask(poses, intr, cas, c, head, tail) ==
    IF head >= tail THEN 0
    ELSE (IF InFrustum(poses[head + 1], intr, cas, c) THEN 1 ELSE 0)
         + BatchMask(poses, intr, cas, c, head + 1, tail)

RECURSIVE CountFromOverwrite(_, _, _, _, _, _)
\* the count of the last camera batch alone (count = mask for count += mask)
CountFromOverwrite(poses, intr, S, cas, c, head) ==
    IF head >= Len(poses) THEN 0
    ELSE IF head + S >= Len(poses)
         THEN BatchMask(poses, intr, cas, c, head, Len(poses))
         ELSE CountFromOverwrite(poses, intr, S, cas, c, head + S)

RECURSIVE CountFrom(_, _, _, _, _, _)
\* the while loop over camera batches: head = 0, S, 2S, ... < B
CountFrom(poses, intr, S, cas, c, head) ==
    IF head >= Len(poses) THEN 0
    ELSE BatchMask(poses, intr, cas, c, head, Min(head + S, Len(poses)))
         + CountFrom(poses, intr, S, cas, c, head + S)

\* the coordinates whose index is i (one, morton3D being a bijection)
CoordsTable == [i \in CellIdx |-> {c \in Coords : morton3D(c) = i}] @@ <<>>
CoordsAt(i) == CoordsTable[i]

RECURSIVE SumCount(_, _, _, _, _)
SumCount(poses, intr, S, cas, cs) ==
    IF cs = {} THEN 0
    ELSE LET c == CHOOSE x \in cs : TRUE
         IN  CountFrom(poses, intr, S, cas, c, 0)
             + SumCount(poses, intr, S, cas, cs \ {c})

\* count[cas, indices] += mask, over every block of cells
VisibleCount(poses, intr, S) ==
    [cas \in CasIdx |-> [i \in CellIdx |-> SumCount(poses, intr, S, cas, CoordsAt(i))]]

\* self.density_grid[count == 0] = -1
MarkUncounted(self, count) ==
    [self EXCEPT !.density_grid =
        [cas \in CasIdx |-> [i \in CellIdx |->
            IF count[cas][i] = 0 THEN Rat(Excluded, 1) ELSE self.density_grid[cas][i]]]]

mark_untrained_grid(self, poses, intr, S) ==
    MarkUncounted(self, VisibleCount(poses, intr, S))

\* the counts the calls of the model end their loops with
VisibleCounts ==
    {b : b \in {VisibleCount(poses, intr, S) :
                    poses \in PoseSets, intr \in Intrinsics, S \in BatchSizes}}

\* ------------------------------------------------------------------ update_extra_state

\* What self.density returns over the grid during one call: a field is a map
\* from cascade and cell coordinates to sigma (the jitter inside a cell and the
\* training between calls make it differ from call to call).  The sigmas are
\* counted in four-hundredths: 8 is 0.02, 1 is 0.0025.
FieldEmpty == [cas \in CasIdx |-> [c \in Coords |-> 0]]
FieldBlob ==
    [cas \in CasIdx |-> [c \in Coords |->
        IF c[1] = 0 THEN 8
        ELSE IF c = <<1, 0, 0>> THEN 1
        ELSE IF c = <<1, 1, 1>> THEN -1
        ELSE 0]]
Fields == {FieldEmpty, FieldBlob}

\* decay, a fraction >= 0; 19/20 is the default 0.95
Decays == {Rat(0, 1), Rat(19, 20)}

\* tmp_grid = -torch.ones_like(self.density_grid)
MinusOnes == [cas \in CasIdx |-> [i \in CellIdx |-> Rat(-1, 1)]]

\* sigmas *= self.density_scale
ScaledSigma(F, cas, c) == Times(Rat(F[cas][c], 400), Rat(density_scale, 1))

\* the full sweep: tmp_grid[cas, morton3D(coords)] = sigmas, for every cell
FullSweep(F) ==
    [cas \in CasIdx |-> [i \in CellIdx |->
        IF CoordsAt(i) = {} THEN MinusOnes[cas][i]
        ELSE ScaledSigma(F, cas, CHOOSE c \in CoordsAt(i) : TRUE)]]

\* N = self.grid_size**3 // 4
PartialN == Cells \div 4

\* torch.nonzero(self.density_grid[cas] > 0)
OccIndices(grid, cas) == {i \in CellIdx : grid[cas][i].num > 0}

\* what n draws with replacement from the set s can hit
DrawSets(s, n) == {d \in SUBSET s : d # {} /\ Cardinality(d) <= n}

\* the draws of one partial sweep, per cascade: torch.randint(0, grid_size, (N, 3))
RandomDraws == [CasIdx -> DrawSets(Coords, PartialN)]
\* occ_indices[rand_mask], drawn among the occupied indices
OccupiedDraws == [CasIdx -> DrawSets(CellIdx, PartialN)]

\* torch.randint(0, occ_indices.shape[0], [N]) raises when nothing is occupied
PartialRaises(grid) == \E cas \in CasIdx : OccIndices(grid, cas) = {}

\* the partial sweep: rnd[cas] are the random coordinates, occ[cas] the
\* occupied indices drawn; indices = cat(morton3D(coords), occ_indices),
\* coords = cat(coords, morton3D_invert(occ_indices))
PartialSweep(F, rnd, occ) ==
    [cas \in CasIdx |-> [i \in CellIdx |->
        IF i \in occ[cas] THEN ScaledSigma(F, cas, morton3D_invert(i))
        ELSE IF \E c \in rnd[cas] : morton3D(c) = i
             THEN ScaledSigma(F, cas, CHOOSE c \in rnd[cas] : morton3D(c) = i)
             ELSE MinusOnes[cas][i]]]

\* the tmp_grids a partial sweep over the grid can end with: the draws of
\* occupied indices fall among the occupied indices of the grid
PartialSweeps(grid) ==
    {PartialSweep(F, rnd, occ) :
        F \in Fields, rnd \in RandomDraws,
        occ \in {o \in OccupiedDraws : \A cas \in CasIdx : o[cas] \subseteq OccIndices(grid, cas)}}

\* self.density_grid[valid_mask] * decay
Decayed(v, decay) == Times(v, decay)

\* the update with a valid_mask that looks at tmp_grid alone
EmaCellSampleOnly(old, tmp, decay) ==
    IF tmp.num >= 0 THEN Maximum(Decayed(old, decay), tmp) ELSE old

\* the update that leaves the decay out
EmaCellNoDecay(old, tmp, decay) ==
    IF old.num >= 0 /\ tmp.num >= 0 THEN Maximum(old, tmp) ELSE old

\* valid_mask = (density_grid >= 0) & (tmp_grid >= 0), for one cell
ValidCell(old, tmp) == old.num >= 0 /\ tmp.num >= 0

\* torch.maximum(density_grid[valid_mask] * decay, tmp_grid[valid_mask]), for one cell
EmaValue(old, tmp, decay) == Maximum(Decayed(old, decay), tmp)

\* valid_mask = (density_grid >= 0) & (tmp_grid >= 0);
\* density_grid[valid_mask] = maximum(density_grid[valid_mask] * decay, tmp_grid[valid_mask])
EmaCell(old, tmp, decay) ==
    IF ValidCell(old, tmp) THEN EmaValue(old, tmp, decay) ELSE old

\* line 677 on its own: the mask, taken from the grid as it stands
ValidMask(grid, tmp) ==
    [cas \in DOMAIN grid |-> [i \in DOMAIN grid[cas] |->
        ValidCell(grid[cas][i], tmp[cas][i])]]

\* the right-hand side of lines 678-679 on its own: the grid as it stands,
\* read at the cells of a mask taken earlier
EmaRhs(grid, tmp, decay, valid_mask) ==
    [cas \in DOMAIN grid |-> [i \in DOMAIN grid[cas] |->
        IF valid_mask[cas][i] THEN EmaValue(grid[cas][i], tmp[cas][i], decay)
        ELSE grid[cas][i]]]

\* the store of line 678 on its own: the values of a right-hand side
\* evaluated earlier go into the cells of the mask
EmaStore(grid, valid_mask, rhs) ==
    [cas \in DOMAIN grid |-> [i \in DOMAIN grid[cas] |->
        IF valid_mask[cas][i] THEN rhs[cas][i] ELSE grid[cas][i]]]

EmaUpdate(grid, tmp, decay) ==
    [cas \in DOMAIN grid |-> [i \in DOMAIN grid[cas] |->
        EmaCell(grid[cas][i], tmp[cas][i], decay)]]

RECURSIVE ClampSum(_, _)
\* the sum of the first n cells of the flat grid, each clamped at 0
ClampSum(grid, n) ==
    IF n <= 0 THEN Rat(0, 1)
    ELSE Plus(ClampSum(grid, n - 1), Maximum(FlatGrid(grid, n - 1), Rat(0, 1)))

\* torch.mean(self.density_grid.clamp(min=0))
MeanDensity(grid) ==
    Times(ClampSum(grid, cascade * Cells), Rat(1, cascade * Cells))

\* the threshold taken as the larger of the two
BitThresholdMax(mean) == IF Less(mean, density_thresh) THEN density_thresh ELSE mean

\* min(self.mean_density, self.density_thresh)
BitThreshold(mean) == IF Less(mean, density_thresh) THEN mean ELSE density_thresh

\* the decays by 19/20 a cell of the model goes through before it is sampled
\* above its value or decayed to 0, and the common denominator of a grid
\* whose cells (sampled in two-hundredths) have gone through that many
MaxDecays == 3
MaxDen == 200 * 20 ^ MaxDecays

RECURSIVE DenLcm(_, _)
\* the least common denominator of the first n cells of the flat grid, or 0
\* when it is above MaxDen
DenLcm(grid, n) ==
    IF n <= 0 THEN 1
    ELSE LET l == DenLcm(grid, n - 1)
             d == FlatGrid(grid, n - 1).den
         IN  IF l = 0 \/ d > MaxDen THEN 0
             ELSE IF l \div Gcd(l, d) > MaxDen \div d THEN 0
             ELSE (l \div Gcd(l, d)) * d

\* the grid is one the model follows
Fits(grid) == DenLcm(grid, cascade * Cells) > 0

\* lines 677-679: the ema update
UpdateGrid(self, tmp, decay) ==
    [self EXCEPT !.density_grid = EmaUpdate(self.density_grid, tmp, decay)]

\* lines 680-682
UpdateMean(self) ==
    [self EXCEPT !.mean_density = MeanDensity(self.density_grid),
                 !.iter_density = self.iter_density + 1]

\* lines 685-688: convert to bitfield
UpdateBitfield(self) ==
    [self EXCEPT !.density_bitfield =
        packbits(self.density_grid, BitThreshold(self.mean_density),
                 self.density_bitfield)]

\* the mean taken over all the slots whenever one was recorded
UpdateStepCounterAllSlots(self) ==
    LET total_step == IF self.local_step > 0 THEN CounterSlots ELSE 0
    IN  [self EXCEPT
            !.mean_count =
                IF total_step > 0
                THEN SumTo([k \in 0 .. (total_step - 1) |-> self.step_counter[k][1]],
                           total_step) \div total_step
                ELSE self.mean_count,
            !.local_step = 0]

\* lines 691-695: update step counter
UpdateStepCounter(self) ==
    LET total_step == Min(CounterSlots, self.local_step)
    IN  [self EXCEPT
            !.mean_count =
                IF total_step > 0
                THEN SumTo([k \in 0 .. (total_step - 1) |-> self.step_counter[k][1]],
                           total_step) \div total_step
                ELSE self.mean_count,
            !.local_step = 0]

\* update_extra_state from the sampled tmp_grid on
update_extra_state(self, tmp, decay) ==
    UpdateStepCounter(UpdateBitfield(UpdateMean(UpdateGrid(self, tmp, decay))))

\* a warm-up one call longer
IsFullSweepLate(self) == self.iter_density <= WarmUp

\* the sweep the call makes: full while iter_density < 16
IsFullSweep(self) == self.iter_density < WarmUp

\* ------------------------------------------------------------------ run

\* Weights, opacities and transmittances are fixed-point numbers with
\* WeightOne subdivisions of 1.  The opacity 1 - exp(-x) is taken with x
\* counted in units of ln 2, so that 1 - exp(-x) = 1 - 2^-x falls on the lattice.
WeightBits == 6
WeightOne == Pow2(WeightBits)
\* the 1e-15 added to 1 - alpha: below the lattice
Eps15 == 0
\* the mask threshold 1e-4, as a fraction
MaskThreshold == Rat(1, 10000)

\* a ray: origin o and direction d (one coordinate axis), direction norm, and
\* the near and far raymarching.near_far_from_aabb returns for it; the rays
\* of a batch differ from one another
RayAt(n) ==
    [o |-> IF n % 2 = 1 THEN -2 ELSE -1,
     d |-> IF n > 4 THEN 0 ELSE 1,
     norm |-> 1 + ((n \div 2) % 2),
     near |-> 1, far |-> 3]

\* the deterministic field the renderer queries: sigma, rgb and the clip
\* feature at a (clipped) position
FieldSigma(x) == IF x <= -1 THEN 1 ELSE IF x = 0 THEN 0 ELSE 1
FieldRgb(x) == IF x = -1 THEN 0 ELSE 1
FieldClip(x) == x + 2

\* z_vals = nears + (fars - nears) * linspace(0, 1, num_steps)
ZVal(ray, T, i) ==
    IF T = 1 THEN ray.near ELSE ray.near + ((ray.far - ray.near) * i) \div (T - 1)

\* sample_dist = (fars - nears) / num_steps
SampleDist(ray, T) == (ray.far - ray.near) \div T

\* xyzs = min(max(rays_o + rays_d * z_vals, aabb[:3]), aabb[3:])
Xyz(ray, T, i, aabb) == Min(Max(ray.o + ray.d * ZVal(ray, T, i), aabb[1]), aabb[4])

\* the length of deltas = cat(z_vals[1:] - z_vals[:-1], sample_dist *
\* ones_like(deltas[..., :1])), and so of alphas, weights and mask: with
\* num_steps = 1 the difference is empty and so is its first column
NumWeights(T) == IF T = 1 THEN 0 ELSE T

\* deltas[i], i < NumWeights(T)
Delta(ray, T, i) ==
    IF i < T - 1 THEN ZVal(ray, T, i + 1) - ZVal(ray, T, i) ELSE SampleDist(ray, T)

\* alphas = 1 - exp(-deltas * density_scale * sigma)
Alpha(ray, T, i, aabb) ==
    WeightOne
    - WeightOne \div Pow2(Delta(ray, T, i) * density_scale * FieldSigma(Xyz(ray, T, i, aabb)))

RECURSIVE CumProd(_, _, _, _)
\* cumprod(cat(1, 1 - alphas + 1e-15))[i]
CumProd(ray, T, i, aabb) ==
    IF i = 0 THEN WeightOne
    ELSE (CumProd(ray, T, i - 1, aabb)
          * (WeightOne - Alpha(ray, T, i - 1, aabb) + Eps15)) \div WeightOne

\* weights = alphas * cumprod(alphas_shifted)[..., :-1]
PreMaskWeight(ray, T, i, aabb) ==
    (Alpha(ray, T, i, aabb) * CumProd(ray, T, i, aabb)) \div WeightOne

\* mask = weights > 1e-4
Mask(ray, T, i, aabb) ==
    PreMaskWeight(ray, T, i, aabb) * MaskThreshold.den > MaskThreshold.num * WeightOne

\* weights[logical_not(mask)] = 0
Weight(ray, T, i, aabb) ==
    IF Mask(ray, T, i, aabb) THEN PreMaskWeight(ray, T, i, aabb) ELSE 0

\* what run computes for one ray; every output is a fraction.  The sums run
\* over the NumWeights(T) weights (an empty weights tensor broadcasts the
\* T = 1 samples away); rgb holds the colour of each of the T samples.
RunRay(ray, T, aabb) ==
    LET W == NumWeights(T)
        w == [i \in 0 .. (W - 1) |-> Weight(ray, T, i, aabb)]
        weights_sum == SumTo(w, W)
        wz == SumTo([i \in 0 .. (W - 1) |-> w[i] * ZVal(ray, T, i)], W)
    IN  [depth |-> Rat(wz, WeightOne * ray.norm),
         depth_variance |->
            Rat(SumTo([i \in 0 .. (W - 1) |->
                        w[i] * (wz - ZVal(ray, T, i) * WeightOne)
                             * (wz - ZVal(ray, T, i) * WeightOne)], W),
                WeightOne * WeightOne * WeightOne * ray.norm * ray.norm),
         image |->
            Rat(SumTo([i \in 0 .. (W - 1) |-> w[i] * FieldRgb(Xyz(ray, T, i, aabb))], W)
                + (WeightOne - weights_sum) * 1,
                WeightOne),
         coordinates_map |->
            Rat(SumTo([i \in 0 .. (W - 1) |-> w[i] * Xyz(ray, T, i, aabb)], W),
                WeightOne),
         rgb |-> [i \in 0 .. (T - 1) |-> FieldRgb(Xyz(ray, T, i, aabb))],
         clip_features |->
            Rat(SumTo([i \in 0 .. (W - 1) |-> w[i] * FieldClip(Xyz(ray, T, i, aabb))], W),
                WeightOne)]

\* the keys of the dictionary run returns
RunKeys == {"depth", "depth_variance", "image", "coordinates_map", "rgb", "clip_features"}

\* staged outputs that carry the per-sample colours too
StagedKeysAll == {"depth", "depth_variance", "image", "clip_features", "coordinates_map", "rgb"}

\* the keys render fills in when staged
StagedKeys == {"depth", "depth_variance", "image", "clip_features", "coordinates_map"}

\* the keyword arguments run reads
Kwargs(T, upsample_steps, bg_color) ==
    [num_steps |-> T, upsample_steps |-> upsample_steps, bg_color |-> bg_color]

\* bg_color: None, or a colour
None == -1

\* how run ends on N rays in all: the error it raises first, or "ok".  With
\* no ray, v.view(N, num_steps, -1) of the density outputs raises.
RunOutcome(kw, configured, radius, N) ==
    IF kw.upsample_steps # 0 THEN "AssertionError"
    ELSE IF kw.bg_color # None THEN "AssertionError"
    ELSE IF ~configured THEN "NotImplementedError"
    ELSE IF N = 0 THEN "RuntimeError"
    ELSE IF radius > 0 THEN "AssertionError"
    ELSE "ok"

\* the outputs run leaves flat over the B * N rays
FlatKeys == {"depth_variance", "rgb"}

\* run over the rays of a [B, N] batch: the rays are flattened; image,
\* depth, coordinates_map and clip_features are viewed back as [B, N],
\* depth_variance and rgb are returned flat, ray f of row b at (b - 1) * N + n
Run(rays, kw, aabb) ==
    [k \in RunKeys |->
        IF k \in FlatKeys
        THEN [f \in 1 .. (Len(rays) * Len(rays[1])) |->
                RunRay(rays[((f - 1) \div Len(rays[1])) + 1][((f - 1) % Len(rays[1])) + 1],
                       kw.num_steps, aabb)[k]]
        ELSE [b \in 1 .. Len(rays) |-> [n \in 1 .. Len(rays[b]) |->
                RunRay(rays[b][n], kw.num_steps, aabb)[k]]]]

\* ------------------------------------------------------------------ render

\* torch.empty: memory that was never written
Uninit == Rat(0, 0)

\* torch.empty((B, N, ...)) for each staged output
EmptyOutputs(B, N) ==
    [k \in StagedKeys |-> [b \in 1 .. B |-> [n \in 1 .. N |-> Uninit]]]

\* out[b:b+1, head:tail] = results_[k] for each staged key (the flat
\* depth_variance of the chunk broadcasts into its [1, tail - head] slice)
WriteSlice(out, b, head, tail, chunk) ==
    [k \in DOMAIN out |->
        [out[k] EXCEPT ![b] =
            [n \in DOMAIN out[k][b] |->
                IF head < n /\ n <= tail
                THEN IF k \in FlatKeys THEN chunk[k][n - head] ELSE chunk[k][1][n - head]
                ELSE out[k][b][n]]]]

\* a tail that stops one ray short of the end of the row
ChunkTailShort(head, max_ray_batch, N) == Min(head + max_ray_batch, N - 1)

\* tail = min(head + max_ray_batch, N)
ChunkTail(head, max_ray_batch, N) == Min(head + max_ray_batch, N)

\* a head that steps back onto the last ray of the chunk
NextHeadOverlap(head, max_ray_batch) == head + max_ray_batch - 1

\* head += max_ray_batch
NextHead(head, max_ray_batch) == head + max_ray_batch

\* where the index i of a slice falls in a row of N rays: a negative index
\* counts from the end, and both ends are clipped to the row
SliceIndex(i, N) == IF i < 0 THEN Max(i + N, 0) ELSE Min(i, N)

\* the rays of rays[b:b+1, head:tail] in a row of N
SliceLen(head, tail, N) == Max(SliceIndex(tail, N) - SliceIndex(head, N), 0)

RECURSIVE ChunkOutcome(_, _, _, _, _, _)
\* how the while loop ends from head on: "ok", or the error of the first
\* _run call that raises (run on a slice without rays raises)
ChunkOutcome(head, max_ray_batch, N, kw, configured, radius) ==
    IF head < N
    THEN LET o == RunOutcome(kw, configured, radius,
                             SliceLen(head, ChunkTail(head, max_ray_batch, N), N))
         IN  IF o # "ok" THEN o
             ELSE ChunkOutcome(NextHead(head, max_ray_batch), max_ray_batch, N,
                               kw, configured, radius)
    ELSE "ok"

RECURSIVE Chunks(_, _, _)
\* the (head, tail) pairs the while loop goes through from head on
Chunks(head, max_ray_batch, N) ==
    IF head < N
    THEN <<<<head, ChunkTail(head, max_ray_batch, N)>>>>
         \o Chunks(NextHead(head, max_ray_batch), max_ray_batch, N)
    ELSE <<>>

RECURSIVE ChunkLoop(_, _, _, _, _, _, _)
\* while head < N: results_ = _run(rays[b:b+1, head:tail]); write the slice
ChunkLoop(out, rays, b, head, max_ray_batch, kw, aabb) ==
    LET N == Len(rays[b])
        tail == ChunkTail(head, max_ray_batch, N)
    IN  IF head < N
        THEN ChunkLoop(
                WriteSlice(out, b, head, tail,
                           Run(<<SubSeq(rays[b], head + 1, tail)>>, kw, aabb)),
                rays, b, NextHead(head, max_ray_batch), max_ray_batch, kw, aabb)
        ELSE out

RECURSIVE RowLoop(_, _, _, _, _, _)
\* for b in range(B)
RowLoop(out, rays, b, max_ray_batch, kw, aabb) ==
    IF b > Len(rays) THEN out
    ELSE RowLoop(ChunkLoop(out, rays, b, 0, max_ray_batch, kw, aabb),
                 rays, b + 1, max_ray_batch, kw, aabb)

\* N of a [B, N] batch (every row has N rays)
RayCount(rays) == IF Len(rays) = 0 THEN 0 ELSE Len(rays[1])

\* the staged branch of render
StagedRender(rays, max_ray_batch, kw, aabb) ==
    RowLoop(EmptyOutputs(Len(rays), RayCount(rays)), rays, 1, max_ray_batch, kw, aabb)

\* how render ends without cuda_ray: staged, self.clip_feat_dim is read
\* first (an attribute of the concrete field), then every row goes through
\* the while loop
RenderOutcome(rays, staged, max_ray_batch, kw, configured, radius) ==
    IF staged
    THEN IF ~configured THEN "AttributeError"
         ELSE IF Len(rays) = 0 THEN "ok"
         ELSE ChunkOutcome(0, max_ray_batch, RayCount(rays), kw, configured, radius)
    ELSE RunOutcome(kw, configured, radius, Len(rays) * RayCount(rays))

\* what render returns without cuda_ray when it raises nothing
RenderResults(rays, staged, max_ray_batch, kw, aabb) ==
    IF staged THEN StagedRender(rays, max_ray_batch, kw, aabb) ELSE Run(rays, kw, aabb)

\* ------------------------------------------------------------------ the calls, one at a time

Returned(op, outcome, args) == [op |-> op, outcome |-> outcome, args |-> args]
NoArgs == [none |-> TRUE]

\* the attributes take the values of the record s
Becomes(s) ==
    /\ density_grid' = s.density_grid
    /\ density_bitfield' = s.density_bitfield
    /\ mean_density' = s.mean_density
    /\ iter_density' = s.iter_density
    /\ step_counter' = s.step_counter
    /\ mean_count' = s.mean_count
    /\ local_step' = s.local_step

Init ==
    /\ \E c \in Configs : cuda_ray = c[1] /\ bg_radius = c[2] /\ field_ok = c[3]
    \* calls made one at a time end the same with either kernel
    /\ in_place = FALSE
    /\ aabb_train = InitAabb
    /\ aabb_infer = InitAabb
    /\ LET s == IF cuda_ray THEN InitExtraState ELSE NoExtraState
       IN  /\ density_grid = s.density_grid
           /\ density_bitfield = s.density_bitfield
           /\ mean_density = s.mean_density
           /\ iter_density = s.iter_density
           /\ step_counter = s.step_counter
           /\ mean_count = s.mean_count
           /\ local_step = s.local_step
    /\ call = Returned("__init__", "ok", NoArgs)
    /\ results = NoResults
    /\ sweep = "none"
    /\ calls = 0
    /\ pc = NoCallers
    /\ locals = NoCallers

\* reset_extra_state()
Reset ==
    /\ Becomes(IF cuda_ray THEN reset_extra_state(Self) ELSE Self)
    /\ call' = Returned("reset", "ok", NoArgs)
    /\ results' = NoResults
    /\ sweep' = "none"
    /\ calls' = 0
    /\ UNCHANGED <<config, callers, aabb_train, aabb_infer>>

\* mark_untrained_grid(poses, intrinsic, S)
Mark ==
    \E count \in VisibleCounts :
        /\ Becomes(IF cuda_ray THEN MarkUncounted(Self, count) ELSE Self)
        /\ call' = Returned("mark", "ok", NoArgs)
        /\ results' = NoResults
        /\ UNCHANGED <<config, callers, aabb_train, aabb_infer, sweep, calls>>

\* a call that raised: nothing the object keeps has changed
Raised(op, error) ==
    /\ call' = Returned(op, error, NoArgs)
    /\ results' = NoResults
    /\ UNCHANGED <<config, callers, aabb_train, aabb_infer, density_grid, density_bitfield,
                   mean_density, iter_density, step_counter, mean_count, local_step,
                   sweep, calls>>

\* update_extra_state(decay) completes from the sampled tmp_grid
Refreshed(tmp, decay, kind) ==
    /\ Becomes(update_extra_state(Self, tmp, decay))
    /\ call' = Returned("refresh", "ok", NoArgs)
    /\ results' = NoResults
    /\ sweep' = kind
    /\ calls' = calls + 1
    /\ UNCHANGED <<config, callers, aabb_train, aabb_infer>>

\* update_extra_state without cuda_ray returns at once
RefreshDisabled ==
    /\ ~cuda_ray
    /\ Becomes(Self)
    /\ call' = Returned("refresh", "ok", NoArgs)
    /\ results' = NoResults
    /\ UNCHANGED <<config, callers, aabb_train, aabb_infer, sweep, calls>>

\* update_extra_state on a field that does not implement density
RefreshUnconfigured ==
    /\ cuda_ray /\ ~field_ok
    /\ IsFullSweep(Self) \/ ~PartialRaises(density_grid)
    /\ Raised("refresh", "NotImplementedError")

\* update_extra_state during warm-up: the full sweep
RefreshFull ==
    /\ cuda_ray /\ field_ok
    /\ IsFullSweep(Self)
    /\ \E F \in Fields, decay \in Decays :
           /\ Fits(EmaUpdate(density_grid, FullSweep(F), decay))
           /\ Refreshed(FullSweep(F), decay, "full")

\* update_extra_state after warm-up: the partial sweep
RefreshPartial ==
    /\ cuda_ray /\ field_ok
    /\ ~IsFullSweep(Self)
    /\ ~PartialRaises(density_grid)
    /\ \E tmp \in PartialSweeps(density_grid), decay \in Decays :
           /\ Fits(EmaUpdate(density_grid, tmp, decay))
           /\ Refreshed(tmp, decay, "partial")

\* update_extra_state after warm-up with a cascade in which nothing is occupied
RefreshPartialRaises ==
    /\ cuda_ray
    /\ ~IsFullSweep(Self)
    /\ PartialRaises(density_grid)
    /\ Raised("refresh", "RuntimeError")

Refresh ==
    \/ RefreshDisabled
    \/ RefreshUnconfigured
    \/ RefreshFull
    \/ RefreshPartial
    \/ RefreshPartialRaises

\* the batches of rays handed to render: [1, N] for N up to MaxRays, and [2, N]
\* for N up to 1
RowFrom(first, n) == [k \in 1 .. n |-> RayAt(first + k - 1)]
RayBatches ==
    {<<RowFrom(1, n)>> : n \in 0 .. MaxRays}
    \cup {<<RowFrom(1, n), RowFrom(2, n)>> : n \in 0 .. 1}

ChunkSizes == 0 .. MaxChunk

\* the keyword arguments of the calls: num_steps, upsample_steps, bg_color
KwargSets ==
    {Kwargs(1, 0, None), Kwargs(2, 0, None), Kwargs(2, 1, None), Kwargs(2, 0, 0)}

\* staged and max_ray_batch (read only when staged)
Stagings == {<<FALSE, 1>>} \cup {<<TRUE, m>> : m \in ChunkSizes}

RenderArgs(rays, staged, max_ray_batch, kw) ==
    [rays |-> rays, staged |-> staged, max_ray_batch |-> max_ray_batch, kw |-> kw]

\* render with cuda_ray: assert (False), whatever the arguments
RenderAccelerated ==
    /\ cuda_ray
    /\ Raised("render", "AssertionError")

\* render without cuda_ray
RenderPlain ==
    /\ ~cuda_ray
    /\ \E rays \in RayBatches, st \in Stagings, kw \in KwargSets :
        LET outcome == RenderOutcome(rays, st[1], st[2], kw, field_ok, bg_radius)
            \* self.aabb_train if self.training else self.aabb_infer: the two
            \* boxes hold the same value, nothing writes them after __init__
            aabb == aabb_infer
        IN  /\ call' = Returned("render", outcome, RenderArgs(rays, st[1], st[2], kw))
            /\ results' = IF outcome = "ok"
                          THEN RenderResults(rays, st[1], st[2], kw, aabb)
                          ELSE NoResults
            /\ UNCHANGED <<config, callers, aabb_train, aabb_infer, density_grid, density_bitfield,
                           mean_density, iter_density, step_counter, mean_count,
                           local_step, sweep, calls>>

Render ==
    \/ RenderAccelerated
    \/ RenderPlain

\* density(x) or color(x, d) of the class itself (no concrete field overrides them)
Query ==
    /\ ~field_ok
    /\ \E op \in {"density", "color"} : Raised(op, "NotImplementedError")

\* the runs explored stop calling update_extra_state once n refreshes have
\* completed since the last reset; the code itself has no such limit
Within(n) == iter_density < n

Next ==
    \/ Reset
    \/ Mark
    \/ Within(MaxIter) /\ Refresh
    \/ Render
    \/ Query

Spec == Init /\ [][Next]_vars

\* ------------------------------------------------------------------ the sweep schedule

\* resets and refreshes alone, followed past the warm-up
NextSweep ==
    \/ Reset
    \/ Within(MaxSweeps) /\ Refresh

SpecSweep == Init /\ [][NextSweep]_vars

\* ------------------------------------------------------------------ the combine step alone

\* densities of the grid before the step and of the samples
OldVals == {Rat(Excluded, 1), Rat(0, 1), Rat(3, 1), Rat(5, 1)}
SampleVals == {Rat(4, 1), Rat(7, 1)}
\* the cells the step is followed on; the others hold 0 and are not sampled
EmaCells == 0 .. 3

InitEma ==
    /\ cuda_ray = TRUE /\ bg_radius = -1 /\ field_ok = TRUE
    /\ in_place = FALSE
    /\ aabb_train = InitAabb
    /\ aabb_infer = InitAabb
    /\ \E old \in [EmaCells -> OldVals] :
           density_grid = [cas \in CasIdx |-> [i \in CellIdx |->
                              IF i \in EmaCells THEN old[i] ELSE Rat(0, 1)]]
    /\ density_bitfield = InitExtraState.density_bitfield
    /\ mean_density = InitExtraState.mean_density
    /\ iter_density = InitExtraState.iter_density
    /\ step_counter = InitExtraState.step_counter
    /\ mean_count = InitExtraState.mean_count
    /\ local_step = InitExtraState.local_step
    /\ call = Returned("__init__", "ok", NoArgs)
    /\ results = NoResults
    /\ sweep = "none"
    /\ calls = 0
    /\ pc = NoCallers
    /\ locals = NoCallers

\* the decays of the combine rule: none kept, a half, and the default
EmaDecays == Decays \cup {Rat(1, 2)}

\* tmp_grid = -1 everywhere, then the sampled cells take their densities;
\* lines 677-679 combine it with the grid
Combine ==
    /\ call.op = "__init__"
    /\ \E sampled \in SUBSET EmaCells, sigmas \in [EmaCells -> SampleVals], decay \in EmaDecays :
        LET tmp == [cas \in CasIdx |-> [i \in CellIdx |->
                        IF i \in sampled THEN sigmas[i] ELSE MinusOnes[cas][i]]]
        IN  /\ density_grid' = UpdateGrid(Self, tmp, decay).density_grid
            /\ locals' = [old |-> density_grid, tmp_grid |-> tmp, decay |-> decay]
            /\ call' = Returned("combine", "ok", NoArgs)
    /\ UNCHANGED <<config, aabb_train, aabb_infer, density_bitfield, mean_density,
                   iter_density, step_counter, mean_count, local_step, results,
                   sweep, calls, pc>>

NextEma == Combine

SpecEma == InitEma /\ [][NextEma]_vars

\* ------------------------------------------------------------------ concurrent callers

\* The class takes no lock.  Each call of a caller advances in steps, one
\* per group of statements that reads or writes the attributes, and the steps
\* of the callers interleave.
Callers == {1, 2}
\* calls the callers make between them
MaxConcCalls == 3
Idle == [none |-> TRUE]

ConcPoseSets == {<<>>, <<CamUp>>}
ConcDecays == {Rat(1, 2)}
ConcBatchSizes == {1, 2}

InitConc ==
    /\ cuda_ray = TRUE /\ bg_radius = -1 /\ field_ok = TRUE
    /\ in_place \in BOOLEAN
    /\ aabb_train = InitAabb
    /\ aabb_infer = InitAabb
    /\ density_grid = InitExtraState.density_grid
    /\ density_bitfield = InitExtraState.density_bitfield
    /\ mean_density = InitExtraState.mean_density
    /\ iter_density = InitExtraState.iter_density
    /\ step_counter = InitExtraState.step_counter
    /\ mean_count = InitExtraState.mean_count
    /\ local_step = InitExtraState.local_step
    /\ call = Returned("__init__", "ok", NoArgs)
    /\ results = NoResults
    /\ sweep = "none"
    /\ calls = 0
    /\ pc = [t \in Callers |-> "idle"]
    /\ locals = [t \in Callers |-> Idle]

\* caller t enters a call
Enter(t, at, frame) ==
    /\ pc[t] = "idle"
    /\ calls < MaxConcCalls
    /\ calls' = calls + 1
    /\ pc' = [pc EXCEPT ![t] = at]
    /\ locals' = [locals EXCEPT ![t] = frame]

\* caller t moves on inside its call
Goto(t, at) ==
    /\ pc' = [pc EXCEPT ![t] = at]
    /\ UNCHANGED locals

\* caller t's call returns
Leave(t, op, outcome) ==
    /\ pc' = [pc EXCEPT ![t] = "idle"]
    /\ locals' = [locals EXCEPT ![t] = Idle]
    /\ call' = Returned(op, outcome, NoArgs)
    /\ results' = NoResults

\* the frame of a refresh: tmp_grid and decay, and the values its statements
\* hold between a read and the store that follows it
RefreshFrame(tmp, decay) ==
    [tmp_grid |-> tmp, decay |-> decay, valid_mask |-> <<>>, rhs |-> <<>>,
     mean |-> Rat(0, 1), iter |-> 0, thresh |-> Rat(0, 1), bits |-> <<>>]

\* caller t moves on inside its call with a value kept in its frame
Keep(t, at, frame) ==
    /\ pc' = [pc EXCEPT ![t] = at]
    /\ locals' = [locals EXCEPT ![t] = frame]

ConcUnchanged ==
    UNCHANGED <<config, aabb_train, aabb_infer, call, results, sweep, calls>>

\* update_extra_state up to the ema update: the sweep fills tmp_grid
RefreshEnter(t) ==
    /\ IsFullSweep(Self)
    /\ \E F \in Fields, decay \in ConcDecays :
           Enter(t, "mask", RefreshFrame(FullSweep(F), decay))
    /\ UNCHANGED <<config, aabb_train, aabb_infer, density_grid, density_bitfield,
                   mean_density, iter_density, step_counter, mean_count, local_step,
                   call, results, sweep>>

\* line 677: valid_mask
RefreshMask(t) ==
    /\ pc[t] = "mask"
    /\ Keep(t, "rhs", [locals[t] EXCEPT
            !.valid_mask = ValidMask(density_grid, locals[t].tmp_grid)])
    /\ Becomes(Self)
    /\ ConcUnchanged

\* lines 678-679, the right-hand side: the grid is read under the mask
RefreshRhs(t) ==
    /\ pc[t] = "rhs"
    /\ Keep(t, "store", [locals[t] EXCEPT
            !.rhs = EmaRhs(density_grid, locals[t].tmp_grid, locals[t].decay,
                           locals[t].valid_mask)])
    /\ Becomes(Self)
    /\ ConcUnchanged

\* line 678, the store into density_grid[valid_mask]
RefreshEma(t) ==
    /\ pc[t] = "store"
    /\ Becomes([Self EXCEPT !.density_grid =
            EmaStore(density_grid, locals[t].valid_mask, locals[t].rhs)])
    /\ Goto(t, "mean")
    /\ ConcUnchanged

\* lines 680-681, the right-hand side: the mean of the grid as it stands
RefreshMean(t) ==
    /\ pc[t] = "mean"
    /\ Keep(t, "mean_store", [locals[t] EXCEPT !.mean = UpdateMean(Self).mean_density])
    /\ Becomes(Self)
    /\ ConcUnchanged

\* line 680, the store of self.mean_density
RefreshMeanStore(t) ==
    /\ pc[t] = "mean_store"
    /\ Becomes([Self EXCEPT !.mean_density = locals[t].mean])
    /\ Goto(t, "iter")
    /\ ConcUnchanged

\* line 682, self.iter_density += 1: the load
RefreshIterLoad(t) ==
    /\ pc[t] = "iter"
    /\ Keep(t, "iter_store", [locals[t] EXCEPT !.iter = iter_density])
    /\ Becomes(Self)
    /\ ConcUnchanged

\* line 682, self.iter_density += 1: the store
RefreshIterStore(t) ==
    /\ pc[t] = "iter_store"
    /\ Becomes([Self EXCEPT !.iter_density = locals[t].iter + 1])
    /\ Goto(t, "thresh")
    /\ ConcUnchanged

\* line 685: density_thresh = min(self.mean_density, self.density_thresh)
RefreshThresh(t) ==
    /\ pc[t] = "thresh"
    /\ Keep(t, "bits", [locals[t] EXCEPT !.thresh = BitThreshold(mean_density)])
    /\ Becomes(Self)
    /\ ConcUnchanged

\* lines 686-688, the call: packbits over the grid as it stands, with that
\* threshold.  The kernel is handed self.density_bitfield: one that writes
\* the buffer it is handed changes the attribute's tensor during the call
\* and returns that tensor; one that allocates returns a new tensor and
\* leaves the attribute as it was until the store.
RefreshPack(t) ==
    /\ pc[t] = "bits"
    /\ IF in_place
       THEN /\ Becomes([Self EXCEPT !.density_bitfield =
                    packbits(density_grid, locals[t].thresh, density_bitfield)])
            /\ Goto(t, "bits_store")
       ELSE /\ Becomes(Self)
            /\ Keep(t, "bits_store", [locals[t] EXCEPT
                    !.bits = packbits(density_grid, locals[t].thresh, density_bitfield)])
    /\ ConcUnchanged

\* line 686, the store of self.density_bitfield: the tensor the call
\* returned; after a kernel that writes in place that is the tensor the
\* attribute already names, with whatever it holds by now
RefreshBits(t) ==
    /\ pc[t] = "bits_store"
    /\ Becomes(IF in_place THEN Self
               ELSE [Self EXCEPT !.density_bitfield = locals[t].bits])
    /\ Goto(t, "counter")
    /\ ConcUnchanged

\* lines 691-695, and the call returns
RefreshLeave(t) ==
    /\ pc[t] = "counter"
    /\ Becomes(UpdateStepCounter(Self))
    /\ Leave(t, "refresh", "ok")
    /\ sweep' = "full"
    /\ UNCHANGED <<config, aabb_train, aabb_infer, calls>>

\* mark_untrained_grid up to its writes: the count is accumulated locally
MarkEnter(t) ==
    /\ \E poses \in ConcPoseSets, intr \in Intrinsics, S \in ConcBatchSizes :
           Enter(t, "mark", [poses |-> poses, intrinsic |-> intr, S |-> S])
    /\ UNCHANGED <<config, aabb_train, aabb_infer, density_grid, density_bitfield,
                   mean_density, iter_density, step_counter, mean_count, local_step,
                   call, results, sweep>>

\* lines 572-573, and the call returns
MarkLeave(t) ==
    /\ pc[t] = "mark"
    /\ Becomes(mark_untrained_grid(Self, locals[t].poses, locals[t].intrinsic, locals[t].S))
    /\ Leave(t, "mark", "ok")
    /\ UNCHANGED <<config, aabb_train, aabb_infer, sweep, calls>>

\* render is entered
RenderEnter(t) ==
    /\ Enter(t, "render", Idle)
    /\ UNCHANGED <<config, aabb_train, aabb_infer, density_grid, density_bitfield,
                   mean_density, iter_density, step_counter, mean_count, local_step,
                   call, results, sweep>>

\* render with cuda_ray: assert (False)
RenderLeave(t) ==
    /\ pc[t] = "render"
    /\ Leave(t, "render", "AssertionError")
    /\ UNCHANGED <<config, aabb_train, aabb_infer, density_grid, density_bitfield,
                   mean_density, iter_density, step_counter, mean_count, local_step,
                   sweep, calls>>

NextConc ==
    \E t \in Callers :
        \/ RefreshEnter(t)
        \/ RefreshMask(t)
        \/ RefreshRhs(t)
        \/ RefreshEma(t)
        \/ RefreshMean(t)
        \/ RefreshMeanStore(t)
        \/ RefreshIterLoad(t)
        \/ RefreshIterStore(t)
        \/ RefreshThresh(t)
        \/ RefreshPack(t)
        \/ RefreshBits(t)
        \/ RefreshLeave(t)
        \/ MarkEnter(t)
        \/ MarkLeave(t)
        \/ RenderEnter(t)
        \/ RenderLeave(t)

SpecConc == InitConc /\ [][NextConc]_vars

\* ------------------------------------------------------------------ one mark_untrained_grid call

\* grids the call is made on: fresh, refreshed, refreshed and marked, uniform
MarkGrids ==
    {ZeroGrid,
     FullSweep(FieldBlob),
     mark_untrained_grid(InitExtraState, <<CamUp>>, <<1, 1, 1, 1>>, 1).density_grid,
     [cas \in CasIdx |-> [i \in CellIdx |-> Rat(5, 1)]]}

InitMark ==
    /\ cuda_ray = TRUE /\ bg_radius = -1 /\ field_ok = TRUE
    /\ in_place = FALSE
    /\ aabb_train = InitAabb
    /\ aabb_infer = InitAabb
    /\ density_grid \in MarkGrids
    /\ density_bitfield = InitExtraState.density_bitfield
    /\ mean_density = InitExtraState.mean_density
    /\ iter_density = InitExtraState.iter_density
    /\ step_counter = InitExtraState.step_counter
    /\ mean_count = InitExtraState.mean_count
    /\ local_step = InitExtraState.local_step
    /\ call = Returned("__init__", "ok", NoArgs)
    /\ results = NoResults
    /\ sweep = "none"
    /\ calls = 0
    /\ pc = NoCallers
    /\ locals = NoCallers

\* mark_untrained_grid(poses, intrinsic, S), its arguments kept
MarkOnce ==
    /\ call.op = "__init__"
    /\ \E poses \in PoseSets, intr \in Intrinsics, S \in BatchSizes :
        /\ Becomes(mark_untrained_grid(Self, poses, intr, S))
        /\ locals' = [old |-> density_grid, poses |-> poses, intrinsic |-> intr, S |-> S]
        /\ call' = Returned("mark", "ok", NoArgs)
    /\ UNCHANGED <<config, aabb_train, aabb_infer, results, sweep, calls, pc>>

NextMark == MarkOnce

SpecMark == InitMark /\ [][NextMark]_vars

\* ------------------------------------------------------------------ the step counter update alone

\* the largest number of slots recorded since the last refresh
MaxSteps == 18

\* step_counter contents: stepsUsed is base in every slot but one
StepCounters ==
    {[k \in 0 .. (CounterSlots - 1) |-> <<IF k = j THEN v ELSE base, 1>>] :
        base \in {0, 3}, j \in 0 .. (CounterSlots - 1), v \in {1, 10}}

InitCounter ==
    /\ cuda_ray = TRUE /\ bg_radius = -1 /\ field_ok = TRUE
    /\ in_place = FALSE
    /\ aabb_train = InitAabb
    /\ aabb_infer = InitAabb
    /\ density_grid = InitExtraState.density_grid
    /\ density_bitfield = InitExtraState.density_bitfield
    /\ mean_density = InitExtraState.mean_density
    /\ iter_density = InitExtraState.iter_density
    /\ step_counter \in StepCounters
    /\ mean_count \in {0, 7}
    /\ local_step \in 0 .. MaxSteps
    /\ call = Returned("__init__", "ok", NoArgs)
    /\ results = NoResults
    /\ sweep = "none"
    /\ calls = 0
    /\ pc = NoCallers
    /\ locals = NoCallers

\* lines 691-695 of update_extra_state
CounterOnce ==
    /\ call.op = "__init__"
    /\ Becomes(UpdateStepCounter(Self))
    /\ locals' = [k |-> local_step, mean_count |-> mean_count]
    /\ call' = Returned("step_counter", "ok", NoArgs)
    /\ UNCHANGED <<config, aabb_train, aabb_infer, results, sweep, calls, pc>>

NextCounter == CounterOnce

SpecCounter == InitCounter /\ [][NextCounter]_vars

\* ------------------------------------------------------------------ the staged loops, step by step

\* B, N and max_ray_batch of the call (max_ray_batch is any integer the
\* caller passes), at the head of the for loop
ChunkFrames ==
    {[B |-> B, N |-> N, max_ray_batch |-> m, b |-> 0, head |-> 0, chunks |-> <<>>,
      at |-> "for"] :
        B \in 0 .. 2, N \in 0 .. MaxRays, m \in (-1) .. MaxChunk}

InitChunk ==
    /\ cuda_ray = FALSE /\ bg_radius = -1 /\ field_ok = TRUE
    /\ in_place = FALSE
    /\ aabb_train = InitAabb
    /\ aabb_infer = InitAabb
    /\ density_grid = NoExtraState.density_grid
    /\ density_bitfield = NoExtraState.density_bitfield
    /\ mean_density = NoExtraState.mean_density
    /\ iter_density = NoExtraState.iter_density
    /\ step_counter = NoExtraState.step_counter
    /\ mean_count = NoExtraState.mean_count
    /\ local_step = NoExtraState.local_step
    /\ call = Returned("__init__", "ok", NoArgs)
    /\ results = NoResults
    /\ sweep = "none"
    /\ calls = 0
    /\ pc = NoCallers
    /\ locals \in ChunkFrames

ChunkUnchanged ==
    UNCHANGED <<config, aabb_train, aabb_infer, density_grid, density_bitfield,
                mean_density, iter_density, step_counter, mean_count, local_step,
                call, results, sweep, calls, pc>>

\* for b in range(B): head = 0, or the loop is over
ForRow ==
    /\ locals.at = "for"
    /\ locals' = IF locals.b < locals.B
                 THEN [locals EXCEPT !.head = 0, !.at = "while"]
                 ELSE [locals EXCEPT !.at = "done"]
    /\ ChunkUnchanged

\* the rays of the chunk that starts at head
ChunkRays(head, max_ray_batch, N) ==
    SliceLen(head, ChunkTail(head, max_ray_batch, N), N)

\* while head < N: one chunk is rendered and written, head += max_ray_batch
ChunkStep ==
    /\ locals.at = "while"
    /\ locals.head < locals.N
    /\ ChunkRays(locals.head, locals.max_ray_batch, locals.N) > 0
    /\ locals' = [locals EXCEPT
            !.chunks = Append(@, <<locals.b, locals.head,
                                   ChunkTail(locals.head, locals.max_ray_batch, locals.N)>>),
            !.head = NextHead(locals.head, locals.max_ray_batch)]
    /\ ChunkUnchanged

\* while head < N: the chunk holds no ray, its _run call raises RuntimeError
\* and render ends with it
ChunkRaises ==
    /\ locals.at = "while"
    /\ locals.head < locals.N
    /\ ChunkRays(locals.head, locals.max_ray_batch, locals.N) = 0
    /\ locals' = [locals EXCEPT
            !.chunks = Append(@, <<locals.b, locals.head,
                                   ChunkTail(locals.head, locals.max_ray_batch, locals.N)>>),
            !.at = "RuntimeError"]
    /\ ChunkUnchanged

\* the while loop ends: head >= N
RowDone ==
    /\ locals.at = "while"
    /\ locals.head >= locals.N
    /\ locals' = [locals EXCEPT !.b = @ + 1, !.at = "for"]
    /\ ChunkUnchanged

NextChunk == ForRow \/ ChunkStep \/ ChunkRaises \/ RowDone

\* the thread in the loop keeps running
SpecChunk == InitChunk /\ [][NextChunk]_vars /\ WF_vars(NextChunk)

\* ------------------------------------------------------------------ sample_pdf

\* Weights are counted in units of 1e-5, the amount sample_pdf adds to each
\* of them; pdf, cdf, u and the samples are exact fractions.
UnitsPerOne == 100000
\* the largest n_samples
MaxSamples == 4

\* weights = weights + 1e-5
Floored(weights) == [i \in DOMAIN weights |-> weights[i] + 1]

RECURSIVE CumSum(_, _)
\* cumsum of the floored weights up to bin j (before the division by their sum)
CumSum(w, j) == IF j <= 0 THEN 0 ELSE w[j] + CumSum(w, j - 1)

\* cdf = cat(0, cumsum(pdf)), entry j = 0 .. m, as the fraction CdfNum / the sum
CdfNum(weights, j) == CumSum(Floored(weights), j)
WeightSum(weights) == CumSum(Floored(weights), Len(weights))

\* u without the half-step inset: linspace(0, 1, n_samples)
ULinspaceEnds(j, n_samples) ==
    IF n_samples = 1 THEN Rat(0, 1) ELSE Rat(j, n_samples - 1)

\* u = linspace(0.5 / n_samples, 1 - 0.5 / n_samples, n_samples), entry j
U(j, n_samples) == Rat(2 * j + 1, 2 * n_samples)

\* torch.searchsorted(cdf, u, right=True): the number of cdf entries <= u.
\* The floats compared are the roundings of cdf and u: of a cdf entry that
\* equals u exactly the rounding is either at most that of u (tie_below, the
\* entry counts) or above it (the entry does not count)
SearchSortedRight(weights, u, tie_below) ==
    Cardinality({j \in 0 .. Len(weights) :
                    \/ CdfNum(weights, j) * u.den < u.num * WeightSum(weights)
                    \/ /\ CdfNum(weights, j) * u.den = u.num * WeightSum(weights)
                       /\ tie_below})

\* one sample: below, above, denom (1 when below 1e-5), t, the interpolation
SampleAt(bins, weights, u, tie_below) ==
    LET inds == SearchSortedRight(weights, u, tie_below)
        below == Max(0, inds - 1)
        above == Min(Len(weights), inds)
        S == WeightSum(weights)
        cb == CdfNum(weights, below)
        ca == CdfNum(weights, above)
        \* (ca - cb) / S < 1e-5
        tiny == (ca - cb) <= (S - 1) \div UnitsPerOne
        \* t = (u - cdf[below]) / denom
        tnum == u.num * S - cb * u.den
        tden == IF tiny THEN u.den * S ELSE u.den * (ca - cb)
    IN  Rat(bins[below + 1] * tden + tnum * (bins[above + 1] - bins[below + 1]), tden)

\* sample_pdf(bins, weights, n_samples, det=True); ties[j] is how the tie
\* of sample j, if it has one, is rounded
sample_pdf(bins, weights, n_samples, ties) ==
    [j \in 0 .. (n_samples - 1) |->
        SampleAt(bins, weights, U(j, n_samples), ties[j])]

\* inds of line 39, for every sample
Inds(weights, n_samples, ties) ==
    [j \in 0 .. (n_samples - 1) |->
        SearchSortedRight(weights, U(j, n_samples), ties[j])]

\* increasing bins, and weights all in bin k: 1e-5, 3e-5 or 1
PdfBins == {<<0, 10, 20, 30>>, <<-5, 0, 1, 100>>}
PdfWeights ==
    {[i \in 1 .. 3 |-> IF i = k + 1 THEN w ELSE 0] : k \in 0 .. 2, w \in {1, 3, UnitsPerOne}}

InitPdf ==
    /\ cuda_ray = FALSE /\ bg_radius = -1 /\ field_ok = TRUE
    /\ in_place = FALSE
    /\ aabb_train = InitAabb
    /\ aabb_infer = InitAabb
    /\ density_grid = NoExtraState.density_grid
    /\ density_bitfield = NoExtraState.density_bitfield
    /\ mean_density = NoExtraState.mean_density
    /\ iter_density = NoExtraState.iter_density
    /\ step_counter = NoExtraState.step_counter
    /\ mean_count = NoExtraState.mean_count
    /\ local_step = NoExtraState.local_step
    /\ call = Returned("__init__", "ok", NoArgs)
    /\ results = NoResults
    /\ sweep = "none"
    /\ calls = 0
    /\ pc = NoCallers
    /\ \E bins \in PdfBins, weights \in PdfWeights, n \in 1 .. MaxSamples :
           locals = [bins |-> bins, weights |-> weights, n_samples |-> n]

SamplePdf ==
    /\ call.op = "__init__"
    /\ \E ties \in [0 .. (locals.n_samples - 1) -> BOOLEAN] :
           results' = [samples |-> sample_pdf(locals.bins, locals.weights,
                                              locals.n_samples, ties),
                       inds |-> Inds(locals.weights, locals.n_samples, ties)]
    /\ call' = Returned("sample_pdf", "ok", NoArgs)
    /\ UNCHANGED <<config, aabb_train, aabb_infer, density_grid, density_bitfield,
                   mean_density, iter_density, step_counter, mean_count, local_step,
                   sweep, calls, pc, locals>>

NextPdf == SamplePdf

SpecPdf == InitPdf /\ [][NextPdf]_vars

\* ------------------------------------------------------------------ run: exact weights

\* The weights of one ray in exact arithmetic. An opacity is a multiple of
\* 1 / AlphaUnits; a quantity that involves the 1e-15 of alphas_shifted is a
\* polynomial in e = 1e-15 with integer coefficients, <<c0, c1, ...>> for
\* c0 + c1 * e + ..., over a power of AlphaUnits.
AlphaUnits == 2
\* the largest num_steps
MaxNumSteps == 3

\* the coefficients kept: weights have degree num_steps - 1 at most, and
\* depth_variance is a product of three of them
PolyLen == 3 * (MaxNumSteps - 1) + 1
PolyConst(c) == [k \in 1 .. PolyLen |-> IF k = 1 THEN c ELSE 0]
PolyScale(p, c) == [k \in 1 .. PolyLen |-> c * p[k]]
PolyAdd(p, q) == [k \in 1 .. PolyLen |-> p[k] + q[k]]
PolySub(p, q) == [k \in 1 .. PolyLen |-> p[k] - q[k]]
RECURSIVE PolyTimesAt(_, _, _, _)
\* the terms p[1] * q[k], ..., p[i] * q[k + 1 - i] of the coefficient k of p * q
PolyTimesAt(p, q, k, i) ==
    IF i = 0 THEN 0 ELSE p[i] * q[k + 1 - i] + PolyTimesAt(p, q, k, i - 1)
\* p * q
PolyTimes(p, q) == [k \in 1 .. PolyLen |-> PolyTimesAt(p, q, k, k)]
\* p * (u + v * e)
PolyTimesLinear(p, u, v) ==
    [k \in 1 .. PolyLen |-> u * p[k] + v * (IF k > 1 THEN p[k - 1] ELSE 0)]
\* the sign of p at e = 1e-15: that of its lowest non-zero coefficient (the
\* coefficients stay far below 1e14)
PolySign(p) ==
    IF \A k \in 1 .. PolyLen : p[k] = 0 THEN 0
    ELSE LET k == CHOOSE i \in 1 .. PolyLen :
                      p[i] # 0 /\ \A j \in 1 .. (i - 1) : p[j] = 0
         IN  IF p[k] > 0 THEN 1 ELSE -1

\* the element types of the tensors run is handed: with float32 the sum
\* (1 - alpha) + 1e-15 rounds to 1 - alpha unless 1 - alpha is 0 (the model's
\* other opacities leave 1 - alpha at 1 / AlphaUnits or more); with float64
\* the 1e-15 stays
Dtypes == {"float32", "float64"}

\* alphas_shifted without the opacity: 1 + 1e-15
AlphasShiftedOpaque(a, dtype) == <<AlphaUnits, AlphaUnits>>

\* 1 - alphas + 1e-15, over AlphaUnits: <<constant, coefficient of e>>
AlphasShifted(a, dtype) ==
    IF dtype = "float32" /\ a < AlphaUnits THEN <<AlphaUnits - a, 0>>
    ELSE <<AlphaUnits - a, AlphaUnits>>

RECURSIVE ExactCumProd(_, _, _)
\* cumprod(cat(1, 1 - alphas + 1e-15))[..., :-1] at sample i = 1 .. T, over
\* AlphaUnits^(i - 1)
ExactCumProd(alphas, i, dtype) ==
    IF i = 1 THEN PolyConst(1)
    ELSE PolyTimesLinear(ExactCumProd(alphas, i - 1, dtype),
                         AlphasShifted(alphas[i - 1], dtype)[1],
                         AlphasShifted(alphas[i - 1], dtype)[2])

\* weights = alphas * cumprod(alphas_shifted)[..., :-1], over AlphaUnits^i
ExactPreMaskWeight(alphas, i, dtype) == PolyScale(ExactCumProd(alphas, i, dtype), alphas[i])

\* mask = weights > 1e-4
ExactMask(alphas, i, dtype) ==
    PolySign(PolySub(PolyScale(ExactPreMaskWeight(alphas, i, dtype), MaskThreshold.den),
                     PolyConst(MaskThreshold.num * AlphaUnits ^ i))) > 0

\* weights[logical_not(mask)] = 0
ExactWeight(alphas, i, dtype) ==
    IF ExactMask(alphas, i, dtype) THEN ExactPreMaskWeight(alphas, i, dtype) ELSE PolyConst(0)

\* a weight of sample i brought over AlphaUnits^T
OverAll(alphas, i, w) == PolyScale(w, AlphaUnits ^ (Len(alphas) - i))

RECURSIVE ExactSum(_, _, _, _)
\* (weights * vals).sum(dim=-1) over the samples 1 .. i, with the post-mask
\* weights, over AlphaUnits^T
ExactSum(alphas, vals, i, dtype) ==
    IF i = 0 THEN PolyConst(0)
    ELSE PolyAdd(ExactSum(alphas, vals, i - 1, dtype),
                 PolyScale(OverAll(alphas, i, ExactWeight(alphas, i, dtype)), vals[i]))

RECURSIVE PreMaskSum(_, _, _)
\* the sum of the pre-mask weights of the samples 1 .. i, over AlphaUnits^T
PreMaskSum(alphas, i, dtype) ==
    IF i = 0 THEN PolyConst(0)
    ELSE PolyAdd(PreMaskSum(alphas, i - 1, dtype),
                 OverAll(alphas, i, ExactPreMaskWeight(alphas, i, dtype)))

\* the samples' z_vals, positions and clip features: one unit apart
ExactZ(T) == [i \in 1 .. T |-> i]
ExactXyz(T) == [i \in 1 .. T |-> i - 2]
ExactClip(T) == [i \in 1 .. T |-> FieldClip(i - 2)]

\* a colour the field returns that is not a number
NaN == -1
\* a sum that has a nan among its terms
PolyNaN == <<>>

\* torch.sum(weights * rgbs, dim=-2) over the samples 1 .. i: a product with
\* a nan colour is nan whatever the weight, 0 included, and so is the sum
ExactColourSum(alphas, rgbs, i, dtype) ==
    IF \E j \in 1 .. i : rgbs[j] = NaN THEN PolyNaN
    ELSE ExactSum(alphas, rgbs, i, dtype)

\* image + (1 - weights_sum) * bg_color with bg_color = 1, over AlphaUnits^T
ExactImage(colour, weights_sum, T) ==
    IF colour = PolyNaN THEN PolyNaN
    ELSE PolyAdd(colour, PolySub(PolyConst(AlphaUnits ^ T), weights_sum))

RECURSIVE ExactVariance(_, _, _, _)
\* (weights * (depth - z_vals / direction_norms)**2).sum(dim=-1) over the
\* samples 1 .. i, over AlphaUnits^(3T) * norm^2: depth is
\* depth_sum / (AlphaUnits^T * norm)
ExactVariance(alphas, depth_sum, i, dtype) ==
    IF i = 0 THEN PolyConst(0)
    ELSE LET T == Len(alphas)
             dev == PolySub(depth_sum, PolyConst(ExactZ(T)[i] * AlphaUnits ^ T))
         IN  PolyAdd(ExactVariance(alphas, depth_sum, i - 1, dtype),
                     PolyTimes(OverAll(alphas, i, ExactWeight(alphas, i, dtype)),
                               PolyTimes(dev, dev)))

\* a value num / den, num a polynomial in e (or nan)
Over(num, den) == [num |-> num, den |-> den]

\* what run returns for one ray of length norm whose field gives the
\* opacities alphas (one per weight) and the colours rgbs (one per sample)
ExactRun(alphas, rgbs, dtype, norm) ==
    LET T == Len(alphas)
        ones == [i \in 1 .. T |-> 1]
        weights_sum == ExactSum(alphas, ones, T, dtype)
        depth_sum == ExactSum(alphas, ExactZ(T), T, dtype) @@ <<>>
    IN  [depth |-> Over(depth_sum, AlphaUnits ^ T * norm),
         depth_variance |-> Over(ExactVariance(alphas, depth_sum, T, dtype),
                                 AlphaUnits ^ (3 * T) * norm * norm),
         image |-> Over(ExactImage(ExactColourSum(alphas, rgbs, T, dtype), weights_sum, T),
                        AlphaUnits ^ T),
         coordinates_map |-> Over(ExactSum(alphas, ExactXyz(T), T, dtype), AlphaUnits ^ T),
         rgb |-> rgbs,
         clip_features |-> Over(ExactSum(alphas, ExactClip(T), T, dtype), AlphaUnits ^ T)]

\* the opacities of the NumWeights(T) weights of a ray of T samples, the
\* colours a field can return for the samples, and the lengths of rays_d
AlphaSeqs(T) == [1 .. NumWeights(T) -> 0 .. AlphaUnits]
RgbSeqs(T) == [1 .. T -> {0, 1, NaN}]
Norms == {1, 2}
\* colours that differ from rgbs at masked-out samples only
Recolourings(alphas, rgbs, dtype) ==
    {r \in RgbSeqs(Len(rgbs)) :
        \A i \in 1 .. Len(alphas) : ExactMask(alphas, i, dtype) => r[i] = rgbs[i]}

InitWeights ==
    /\ cuda_ray = FALSE /\ bg_radius = -1 /\ field_ok = TRUE
    /\ in_place = FALSE
    /\ aabb_train = InitAabb
    /\ aabb_infer = InitAabb
    /\ density_grid = NoExtraState.density_grid
    /\ density_bitfield = NoExtraState.density_bitfield
    /\ mean_density = NoExtraState.mean_density
    /\ iter_density = NoExtraState.iter_density
    /\ step_counter = NoExtraState.step_counter
    /\ mean_count = NoExtraState.mean_count
    /\ local_step = NoExtraState.local_step
    /\ call = Returned("__init__", "ok", NoArgs)
    /\ results = NoResults
    /\ sweep = "none"
    /\ calls = 0
    /\ pc = NoCallers
    /\ \E T \in 1 .. MaxNumSteps :
           \E alphas \in AlphaSeqs(T), dtype \in Dtypes, norm \in Norms :
               locals = [num_steps |-> T, alphas |-> alphas, dtype |-> dtype,
                         norm |-> norm, rgbs |-> <<>>]

\* run on the ray, the field returning some colours
RunExact ==
    /\ call.op = "__init__"
    /\ \E rgbs \in RgbSeqs(locals.num_steps) :
          /\ locals' = [locals EXCEPT !.rgbs = rgbs]
          /\ results' = [first |-> ExactRun(locals.alphas, rgbs, locals.dtype, locals.norm),
                      second |-> <<>>]
    /\ call' = Returned("run", "ok", NoArgs)
    /\ calls' = 1
    /\ UNCHANGED <<config, aabb_train, aabb_infer, density_grid, density_bitfield,
                   mean_density, iter_density, step_counter, mean_count, local_step,
                   sweep, pc>>

\* run on the same ray again, the field returning other colours for the
\* masked-out samples
RunExactAgain ==
    /\ call.op = "run"
    /\ calls = 1
    /\ \E rgbs \in Recolourings(locals.alphas, locals.rgbs, locals.dtype) :
          results' = [results EXCEPT
                         !.second = ExactRun(locals.alphas, rgbs, locals.dtype, locals.norm)]
    /\ call' = Returned("run", "ok", NoArgs)
    /\ calls' = 2
    /\ UNCHANGED <<config, aabb_train, aabb_infer, density_grid, density_bitfield,
                   mean_density, iter_density, step_counter, mean_count, local_step,
                   sweep, pc, locals>>

NextWeights == RunExact \/ RunExactAgain

SpecWeights == InitWeights /\ [][NextWeights]_vars

\* ------------------------------------------------------------------ properties

\* a refresh or mark call that returned normally on a renderer with a grid
Maintained(op) == cuda_ray /\ call.op = op /\ call.outcome = "ok"

AllCells == CasIdx \X CellIdx
CellAt(grid, p) == grid[p[1]][p[2]]

\* C1: a cell that holds the Excluded marker (-1) before a refresh or a mark
\* call still holds it after the call: neither call writes a value over it.
ExcludedStays ==
    [][(cuda_ray /\ call'.op \in {"refresh", "mark"})
        => \A p \in AllCells :
               CellAt(density_grid, p) = Rat(Excluded, 1)
                   => CellAt(density_grid', p) = Rat(Excluded, 1)]_vars

\* a refresh has completed on a grid that holds an excluded cell next to a
\* cell the refresh gave a positive density
ExcludedStaysSeen ==
    /\ Maintained("refresh")
    /\ \E p \in AllCells : CellAt(density_grid, p) = Rat(Excluded, 1)
    /\ \E p \in AllCells : CellAt(density_grid, p).num > 0

\* C3: a completed refresh made a full sweep exactly when it is one of the
\* first 16 refreshes since construction or the last reset, and a partial
\* sweep otherwise; after a partial sweep only a reset brings a full one back.
SweepSchedule ==
    /\ [](Maintained("refresh")
            => /\ calls >= 1
               /\ (calls <= WarmUp => sweep = "full")
               /\ (calls > WarmUp => sweep = "partial"))
    /\ [][(sweep = "partial" /\ call'.op # "reset") => sweep' = "partial"]_vars
    /\ [][call'.op = "reset" => calls' = 0]_vars

\* the nineteenth refresh has completed with a partial sweep, the third
\* partial sweep in a row
SweepScheduleSeen ==
    /\ Maintained("refresh")
    /\ calls = WarmUp + 3
    /\ iter_density = WarmUp + 3
    /\ sweep = "partial"

\* C4: after a reset every grid cell, every bitfield byte and every
\* step-counter entry is 0, and the running statistics (mean density,
\* refresh count, mean step count, local step index) are cleared.
ResetClearsAll ==
    (cuda_ray /\ call.op = "reset")
        => /\ \A p \in AllCells : CellAt(density_grid, p).num = 0
           /\ \A k \in DOMAIN density_bitfield : density_bitfield[k] = 0
           /\ \A k \in DOMAIN step_counter : step_counter[k] = <<0, 0>>
           /\ mean_density.num = 0
           /\ iter_density = 0
           /\ mean_count = 0
           /\ local_step = 0

\* the sum of the grid's cells, each clamped at 0, taken cell by cell
RECURSIVE ClampedSum(_, _)
ClampedSum(grid, cells) ==
    IF cells = {} THEN Rat(0, 1)
    ELSE LET p == CHOOSE q \in cells : TRUE
         IN  Plus(IF CellAt(grid, p).num > 0 THEN CellAt(grid, p) ELSE Rat(0, 1),
                  ClampedSum(grid, cells \ {p}))

\* the bit of cell i (a Morton index) of cascade cas
BitOf(bitfield, cas, i) ==
    LET f == cas * Cells + i IN (bitfield[f \div 8] \div Pow2(f % 8)) % 2

\* mean_density is the mean of the clamped grid, and each cell's bit is set
\* exactly when the cell exceeds the smaller of that mean and density_thresh
Derived ==
    LET total == ClampedSum(density_grid, AllCells)
        n == cascade * Cells
    IN  /\ Times(mean_density, Rat(n, 1)) = total
        /\ \A p \in AllCells :
               BitOf(density_bitfield, p[1], p[2]) = 1
                   <=> (Less(mean_density, CellAt(density_grid, p))
                        \/ Less(density_thresh, CellAt(density_grid, p)))

\* C5 as stated: after a completed refresh or mark call, mean_density and
\* every bit are the ones derived from the grid as it stands.
DerivedAfterMaintenance == (Maintained("refresh") \/ Maintained("mark")) => Derived

\* C5: after a completed refresh, mean_density and every bit are the ones
\* derived from the grid as it stands (a mark call re-derives neither).
DerivedAfterRefresh == Maintained("refresh") => Derived

\* a refresh has completed with a set bit, an excluded cell, and a cell of
\* positive density whose bit is clear
DerivedAfterRefreshSeen ==
    /\ Maintained("refresh")
    /\ \E p \in AllCells : BitOf(density_bitfield, p[1], p[2]) = 1
    /\ \E p \in AllCells : CellAt(density_grid, p) = Rat(Excluded, 1)
    /\ \E p \in AllCells :
           CellAt(density_grid, p).num > 0 /\ BitOf(density_bitfield, p[1], p[2]) = 0

\* C9: a refresh made after warm-up returns normally, also when a cascade
\* holds no cell of density above 0.
SteadyRefreshReturns ==
    (cuda_ray /\ field_ok /\ call.op = "refresh" /\ iter_density >= WarmUp)
        => call.outcome = "ok"

\* a render call that returned its outputs
Rendered(staged) ==
    call.op = "render" /\ call.outcome = "ok" /\ call.args.staged = staged

\* the five outputs the staged and the unstaged render have in common
SharedKeys == {"image", "depth", "depth_variance", "coordinates_map", "clip_features"}

\* the chunks cover the rays 0 .. N-1 once each, one after the other
Partition(ch, N) ==
    /\ \A n \in 0 .. (N - 1) :
           Cardinality({i \in DOMAIN ch : ch[i][1] <= n /\ n < ch[i][2]}) = 1
    /\ \A i \in DOMAIN ch : ch[i][1] < ch[i][2] /\ ch[i][2] <= N
    /\ \A i \in DOMAIN ch : i > 1 => ch[i][1] = ch[i - 1][2]
    /\ (N > 0 => ch # <<>> /\ ch[1][1] = 0 /\ ch[Len(ch)][2] = N)

\* the element of ray n of row b in an output of the unstaged render (which
\* returns depth_variance flat, in ray order)
UnstagedAt(out, k, b, n, N) ==
    IF k \in FlatKeys THEN out[k][(b - 1) * N + n] ELSE out[k][b][n]

\* C6: a staged render of a batch, whatever the chunk size, returns image,
\* depth, depth variance, centroid map and auxiliary feature equal element
\* for element to those of the unstaged render of the same batch, and its
\* chunks are contiguous, disjoint and cover every ray exactly once.
StagedEqualsUnstaged ==
    Rendered(TRUE)
        => LET a == call.args
               N == RayCount(a.rays)
           IN  /\ Partition(Chunks(0, a.max_ray_batch, N), N)
               /\ RenderOutcome(a.rays, FALSE, 1, a.kw, field_ok, bg_radius) = "ok"
                    => \A k \in SharedKeys, b \in DOMAIN a.rays, n \in 1 .. N :
                           results[k][b][n]
                               = UnstagedAt(RenderResults(a.rays, FALSE, 1, a.kw, aabb_infer),
                                            k, b, n, N)

\* a staged render of three rays in chunks of two has returned, with
\* different depths for the first ray and the last
StagedEqualsUnstagedSeen ==
    /\ Rendered(TRUE)
    /\ RayCount(call.args.rays) = 3
    /\ call.args.max_ray_batch = 2
    /\ results["depth"][1][1] # results["depth"][1][3]

\* C7 as stated: a render call that succeeds returns all six outputs, staged or not.
RenderReturnsSix ==
    (call.op = "render" /\ call.outcome = "ok") => DOMAIN results = RunKeys

\* C7: an unstaged render that succeeds returns all six outputs; a staged
\* one returns the five others and no per-sample colours.
RenderReturnsByMode ==
    /\ Rendered(FALSE) => DOMAIN results = RunKeys
    /\ Rendered(TRUE) => DOMAIN results = RunKeys \ {"rgb"}

\* a staged render of at least one ray has returned
RenderReturnsByModeSeen ==
    /\ Rendered(TRUE)
    /\ RayCount(call.args.rays) >= 1
    /\ "rgb" \notin DOMAIN results
    /\ "image" \in DOMAIN results

\* C8: a render call with non-zero upsample steps, or on a renderer with a
\* background radius above 0, or on a renderer with cuda_ray, and a density
\* or color query on the unconfigured field, all end in an error and return
\* no outputs.
UnsupportedRaises ==
    /\ (call.op = "render"
        /\ (cuda_ray \/ bg_radius > 0 \/ call.args.kw.upsample_steps # 0))
            => (call.outcome # "ok" /\ results = NoResults)
    /\ (call.op \in {"density", "color"} /\ ~field_ok)
            => (call.outcome # "ok" /\ results = NoResults)

\* the densities of the spec's example
ExampleOld == <<-1, 5, -1, 3>>
ExampleSample == <<-1, -1, 4, 7>>
ExampleNew == <<-1, 5, -1, 7>>

\* C2: the combine step leaves in every cell max(old * decay, sample) when
\* the old value and the sample are both >= 0, and the old value when either
\* is negative; a cell the call did not sample counts as a sample of -1.
EmaCombine ==
    call.op = "combine"
        => \A cas \in CasIdx, i \in CellIdx :
            LET old == locals.old[cas][i]
                smp == locals.tmp_grid[cas][i]
                new == density_grid[cas][i]
                d == locals.decay
            IN  IF old.num >= 0 /\ smp.num >= 0
                THEN IF old.num * d.num * smp.den >= smp.num * d.den * old.den
                     THEN new.num * d.den * old.den = old.num * d.num * new.den
                     ELSE new = smp
                ELSE new = old

\* the spec's example has been combined: old = [-1, 5, -1, 3], sample =
\* [-1, -1, 4, 7], decay = 0.95 gave [-1, 5, -1, 7]
EmaCombineSeen ==
    /\ call.op = "combine"
    /\ locals.decay = Rat(19, 20)
    /\ \A i \in EmaCells :
           /\ locals.old[0][i] = Rat(ExampleOld[i + 1], 1)
           /\ locals.tmp_grid[0][i] = Rat(ExampleSample[i + 1], 1)
           /\ density_grid[0][i] = Rat(ExampleNew[i + 1], 1)

InMaintenance(t) == pc[t] \notin {"idle", "render"}

\* where a refresh stands between its store into the grid and the store of
\* the bitfield packed from it
Underived ==
    {"mean", "mean_store", "iter", "iter_store", "thresh", "bits", "bits_store"}

\* C10 as stated: among concurrent callers a maintenance call is in flight
\* only while every other caller is idle, and no render call is in flight
\* while a refresh has written the grid and not yet re-derived mean_density
\* and the bitfield.
WritersAlone ==
    /\ \A t \in Callers : InMaintenance(t) => \A u \in Callers \ {t} : pc[u] = "idle"
    /\ (\E u \in Callers : pc[u] = "render") => \A t \in Callers : pc[t] \notin Underived

\* the image the compositor's formula gives a ray over background colour c:
\* sum of weight_i * rgb_i plus (1 - weights_sum) * c, with post-masked weights
Blend(ray, T, aabb, c) ==
    LET W == NumWeights(T)
        w == [i \in 0 .. (W - 1) |-> Weight(ray, T, i, aabb)]
    IN  Rat(SumTo([i \in 0 .. (W - 1) |-> w[i] * FieldRgb(Xyz(ray, T, i, aabb))], W)
            + (WeightOne - SumTo(w, W)) * c,
            WeightOne)

\* C11: a render call without cuda_ray on a configured field, with no
\* upsampling and no background sphere, succeeds whether or not the caller
\* supplies a background colour, and the image of every ray is the blend over
\* that colour, or over 1 (white) when none is supplied.
BackgroundBlends ==
    (call.op = "render" /\ ~cuda_ray /\ field_ok /\ bg_radius <= 0
     /\ call.args.kw.upsample_steps = 0 /\ RayCount(call.args.rays) > 0
     /\ (call.args.staged => call.args.max_ray_batch >= 1))
        => LET a == call.args
               c == IF a.kw.bg_color = None THEN 1 ELSE a.kw.bg_color
           IN  /\ call.outcome = "ok"
               /\ \A b \in DOMAIN a.rays : \A n \in DOMAIN a.rays[b] :
                      results["image"][b][n]
                          = Blend(a.rays[b][n], a.kw.num_steps, aabb_infer, c)

\* some camera of the pose set passes the frustum test for cell c of cascade cas
SeenByAny(poses, intr, cas, c) ==
    \E k \in DOMAIN poses : FrustumTest(poses[k], intr, cas, c)

\* C14: after mark_untrained_grid(poses, intrinsic, S) every cell that passes
\* the frustum test for no camera of the whole pose set is -1 and every other
\* cell keeps its value; the grid is the same for every batch size S, and an
\* empty pose set leaves every cell -1.
MarkByWholePoseSet ==
    call.op = "mark"
        => /\ \A cas \in CasIdx, c \in Coords :
                  density_grid[cas][morton3D(c)]
                      = IF SeenByAny(locals.poses, locals.intrinsic, cas, c)
                        THEN locals.old[cas][morton3D(c)]
                        ELSE Rat(Excluded, 1)
           /\ \A S \in BatchSizes :
                  mark_untrained_grid([Self EXCEPT !.density_grid = locals.old],
                                      locals.poses, locals.intrinsic, S).density_grid
                      = density_grid
           /\ (locals.poses = <<>>
                  => \A cas \in CasIdx, i \in CellIdx :
                         density_grid[cas][i] = Rat(Excluded, 1))

\* two cameras were handled in batches of one: a cell only the first camera
\* sees has kept its positive density, and a cell no camera sees was set to -1
MarkByWholePoseSetSeen ==
    /\ call.op = "mark"
    /\ Len(locals.poses) = 2
    /\ locals.S = 1
    /\ \E cas \in CasIdx, c \in Coords :
           /\ FrustumTest(locals.poses[1], locals.intrinsic, cas, c)
           /\ ~FrustumTest(locals.poses[2], locals.intrinsic, cas, c)
           /\ density_grid[cas][morton3D(c)].num > 0
    /\ \E cas \in CasIdx, i \in CellIdx :
           locals.old[cas][i] # Rat(Excluded, 1) /\ density_grid[cas][i] = Rat(Excluded, 1)

RECURSIVE StepsUsed(_, _, _)
\* stepsUsed summed over the slots from .. n - 1
StepsUsed(counter, from, n) ==
    IF from >= n THEN 0 ELSE counter[from][1] + StepsUsed(counter, from + 1, n)

\* C16: the step-counter update of a refresh leaves local_step at 0; with
\* k >= 1 slots recorded, mean_count becomes the integer part of the mean of
\* stepsUsed over the first min(16, k) slots, and with k = 0 it keeps its value.
StepHint ==
    call.op = "step_counter"
        => /\ local_step = 0
           /\ locals.k = 0 => mean_count = locals.mean_count
           /\ locals.k >= 1 =>
                  LET n == IF locals.k < 16 THEN locals.k ELSE 16
                      total == StepsUsed(step_counter, 0, n)
                  IN  mean_count * n <= total /\ total < (mean_count + 1) * n

\* the update ran with 5 slots recorded, one of them outside the mean, and
\* the mean was not a whole number
StepHintSeen ==
    /\ call.op = "step_counter"
    /\ locals.k = 5
    /\ mean_count * 5 < StepsUsed(step_counter, 0, 5)
    /\ StepsUsed(step_counter, 0, 5) # StepsUsed(step_counter, 0, 16)
    /\ mean_count # locals.mean_count

\* the chunks issued for row b, in the order issued
RowChunks(chunks, b) == SelectSeq(chunks, LAMBDA c : c[1] = b)

\* C17: with max_ray_batch >= 1 the staged loops end for every N >= 0,
\* having issued for each row exactly ceil(N / max_ray_batch) chunks, none
\* empty, in increasing ray order; with max_ray_batch <= 0 and N > 0 the
\* chunk start never reaches N (the loop is left by the RuntimeError of the
\* first chunk without rays, never by head >= N).
ChunkLoopEnds ==
    /\ [](locals.at = "done" /\ locals.max_ray_batch >= 1
            => \A b \in 0 .. (locals.B - 1) :
                 LET ch == RowChunks(locals.chunks, b)
                     m == locals.max_ray_batch
                 IN  /\ Len(ch) = (locals.N + m - 1) \div m
                     /\ \A i \in DOMAIN ch : ch[i][2] < ch[i][3]
                     /\ \A i \in DOMAIN ch : i > 1 => ch[i - 1][3] = ch[i][2]
                     /\ (ch # <<>> => ch[1][2] = 0 /\ ch[Len(ch)][3] = locals.N))
    /\ []((locals.max_ray_batch <= 0 /\ locals.N > 0 /\ locals.B > 0)
            => locals.at # "done" /\ locals.head < locals.N)
    /\ (locals.max_ray_batch >= 1 ~> locals.at = "done")

\* two rows of three rays have been rendered in chunks of two
ChunkLoopEndsSeen ==
    /\ locals.at = "done"
    /\ locals.B = 2 /\ locals.N = 3 /\ locals.max_ray_batch = 2
    /\ Len(locals.chunks) = 4

\* the bin that holds all the weight, counted from 0
MassBin == CHOOSE k \in 0 .. (Len(locals.weights) - 1) : locals.weights[k + 1] > 0

\* sample j lies in [lo, hi]
SampleWithin(j, lo, hi) ==
    /\ lo * results.samples[j].den <= results.samples[j].num
    /\ results.samples[j].num <= hi * results.samples[j].den

\* every returned sample lies in [lo, hi]
SamplesWithin(lo, hi) ==
    \A j \in DOMAIN results.samples : SampleWithin(j, lo, hi)

\* the 1e-5 added to each of `count` empty bins, as a share of the whole
\* floored weight, is below / above the inset 0.5 / n_samples of the first
\* and last quantile
FloorBelowInset(count) ==
    2 * locals.n_samples * count < WeightSum(locals.weights)
FloorAboveInset(count) ==
    2 * locals.n_samples * count > WeightSum(locals.weights)

\* C13 (as stated): deterministic sample_pdf with increasing bins and all
\* weight in one bin k returns, for every n_samples >= 1, only samples in
\* [bins[k], bins[k+1]].
SamplesInMassBin ==
    call.op = "sample_pdf" =>
        SamplesWithin(locals.bins[MassBin + 1], locals.bins[MassBin + 2])

\* C13 (amended): the samples always lie in [bins[0], bins[last]]; they all
\* lie in [bins[k], bins[k+1]] when the 1e-5 given to the bins left of k and
\* to the bins right of k is each less than 0.5 / n_samples of the floored
\* weights' sum, and when either exceeds that share the first or the last
\* sample lies outside [bins[k], bins[k+1]].
SamplesInMassBinWhenFloorSmall ==
    call.op = "sample_pdf" =>
        LET m == Len(locals.weights)
            lo == locals.bins[MassBin + 1]
            hi == locals.bins[MassBin + 2]
        IN  /\ SamplesWithin(locals.bins[1], locals.bins[m + 1])
            /\ (FloorBelowInset(MassBin) /\ FloorBelowInset(m - 1 - MassBin))
                   => SamplesWithin(lo, hi)
            /\ FloorAboveInset(MassBin) => ~SampleWithin(0, lo, hi)
            /\ FloorAboveInset(m - 1 - MassBin)
                   => ~SampleWithin(locals.n_samples - 1, lo, hi)

\* two samples drawn with weight 3e-5 in the middle bin: the floor is small
SamplesInMassBinSeen ==
    /\ call.op = "sample_pdf"
    /\ locals.weights = <<0, 3, 0>>
    /\ locals.n_samples = 2
    /\ FloorBelowInset(1)
    /\ SamplesWithin(locals.bins[2], locals.bins[3])

RECURSIVE OnePlusEps(_)
\* (1 + 1e-15)^n
OnePlusEps(n) == IF n = 0 THEN PolyConst(1) ELSE PolyTimesLinear(OnePlusEps(n - 1), 1, 1)

\* the sum of the ray's pre-mask weights, and 1, both over AlphaUnits^T
PreMaskTotal == PreMaskSum(locals.alphas, Len(locals.alphas), locals.dtype)
ExactOne == PolyConst(AlphaUnits ^ Len(locals.alphas))

\* C12 (as stated): for opacities in [0, 1], the pre-mask weights
\* alpha_i * Tr_i with Tr_0 = 1, Tr_i = Tr_{i-1} * (1 - alpha_{i-1} + 1e-15)
\* sum to at most 1.
PreMaskSumAtMostOne ==
    call.op = "run" => PolySign(PolySub(ExactOne, PreMaskTotal)) >= 0

\* C12 (amended): the T pre-mask weights of a ray are non-negative and sum
\* to at most (1 + 1e-15)^(T - 1) (to 0 when there is none); the part of the
\* sum that does not involve the 1e-15 is at most 1.
PreMaskSumAtMostGrowth ==
    call.op = "run" =>
        LET T == Len(locals.alphas)
        IN  /\ \A i \in 1 .. T : PolySign(ExactPreMaskWeight(locals.alphas, i, locals.dtype)) >= 0
            /\ PolySign(PolySub(PolyScale(OnePlusEps(Max(T - 1, 0)), AlphaUnits ^ T),
                                PreMaskTotal)) >= 0
            /\ PreMaskTotal[1] <= AlphaUnits ^ T

\* float64, a transparent sample before an opaque one: the sum is 1 + 1e-15
PreMaskSumAtMostGrowthSeen ==
    /\ call.op = "run"
    /\ locals.dtype = "float64"
    /\ locals.alphas = <<0, AlphaUnits>>
    /\ PolySign(PolySub(PreMaskTotal, ExactOne)) > 0
    /\ PreMaskTotal = PolyScale(OnePlusEps(1), AlphaUnits ^ 2)

\* the outputs run aggregates with the post-mask weights
Aggregates == {"depth", "depth_variance", "image", "coordinates_map", "clip_features"}

\* C15: the mask is weight_i > 1e-4 on the pre-mask weights, the weights
\* whose mask is false are forced to 0 before any aggregation, and two calls
\* that differ only in the colours the field returns for masked-out samples
\* produce identical outputs; read here on the aggregated outputs alone
\* (depth, depth_variance, image, coordinates_map, clip_features), leaving
\* aside 'rgb', which hands the field's colours back as they came.
MaskedColoursUnseen ==
    calls = 2 =>
        /\ \A i \in 1 .. Len(locals.alphas) :
              ~ExactMask(locals.alphas, i, locals.dtype) => ExactWeight(locals.alphas, i, locals.dtype) = PolyConst(0)
        /\ \A k \in Aggregates : results.first[k] = results.second[k]

====
